---- MODULE Spec2Model ----
(***************************************************************************)
(* State-machine model of LinkedInScraperActor (src/src/main.py): the      *)
(* proxy-rotation policy (get_proxy_url), the browser launch               *)
(* (setup_driver), the rate limiter (add_rate_limit_delay), the retry      *)
(* wrapper (retry_on_failure), the per-entity scrape wrappers and the      *)
(* orchestration in run().                                                 *)
(*                                                                         *)
(* External collaborators are nondeterministic choices of the environment: *)
(* a browser launch succeeds, fails before the browser exists, or fails    *)
(* after it exists; a login returns true or false; an extraction raises on *)
(* its first k attempts; the sink accepts or rejects a pushed record.  The *)
(* key-value store, driver.quit() and the provider's new_url always        *)
(* succeed.                                                                *)
(***************************************************************************)
EXTENDS Integers, Sequences, FiniteSets, TLC

\* ------------------------------------------------------------------ bounds
MaxUrls == 2            \* longest input URL list
MaxResultsIn == 2       \* largest explicit maxResults input (the default is added)
MaxJobResults == 10     \* most listings a job search returns
MaxRetryCalls == 4      \* retry_on_failure calls in the retry harness
MaxOpFails == 4         \* most consecutive failures of the operation retried there
MaxRateCalls == 31      \* add_rate_limit_delay calls in the rate-limit harness
MaxCustomUrls == 2      \* longest custom proxy list
MaxRecreateUrls == 3    \* longest URL list of the PER_REQUEST runs
MaxProxyCalls == 12     \* get_proxy_url calls in the proxy harness

\* ------------------------------------------------------- program constants
max_retries == 3
retry_delay == 5
max_proxy_failures == 5
DefaultMaxResults == 100
RecommendedBuckets == 10
LongBreakEvery == 10
ProgressEvery == 10

VARIABLES
  \* fields of the actor object
  driver,               \* id of the browser held in self.driver, 0 = None
  request_count,
  proxy_config,         \* [type |-> "none" | "apify" | "custom", urls |-> number of custom urls]
  proxy_rotation,
  session_pool_name,    \* "" = None
  current_proxy_url,
  proxy_failure_count,
  \* locals of run()
  pc,                   \* "new" | "setup" | "loop" | "jobs" | "returned" ("proxy" in the proxy harness)
  scrape_type,
  urls,
  max_results,
  proxy_configuration,  \* [useApifyProxy : BOOLEAN, proxyUrls : number of custom urls]
  credentials,          \* [cookie, email, password : BOOLEAN] (truthiness of each input)
  i,                    \* iterations of the task loop finished so far
  broke,                \* the task loop was left by break
  results,
  progress,             \* the in-memory progress dict
  job_results,
  \* the environment
  launched,             \* browsers created so far (ids 1..launched)
  live,                 \* ids of the browsers created and not yet quit
  authed,               \* the last login on self.driver returned true
  kvERROR,              \* number of ERROR records persisted
  kvPROGRESS,           \* last persisted PROGRESS record, with the iteration count at the write
  progress_writes,      \* number of PROGRESS writes
  kvSESSION,            \* "" | "active"
  kvSESSION_FINAL,      \* [written, completed, failed]
  pushed,               \* records the sink accepted, in order
  proxy_requests,       \* session ids / custom urls requested from the proxy source, in order
  logins,               \* number of login attempts
  sink_rejects,         \* number of push_data calls that raised
  \* history of the task loop
  processed,            \* urls of the task iterations run so far, in order
  last_task,            \* what the last task iteration did
  extract_ok,           \* tasks whose extraction returned a payload
  extract_failed,       \* tasks whose extraction raised
  max_live,             \* largest number of browsers live at once
  recreations,          \* task iterations that took the PER_REQUEST recreation branch
  skipped,              \* indices of the tasks left by `continue` (re-login failed)
  at_break,             \* the loop state when it was left by break
  \* the harnesses of retry_on_failure and add_rate_limit_delay
  clock,                \* seconds slept so far
  sleeps,               \* the sleeps of the last call, in order
  calls,                \* calls made so far
  last_call,            \* outcome of the last retry_on_failure call
  proxy_call,           \* outcome of the last get_proxy_url call of the proxy harness
  long_breaks           \* the add_rate_limit_delay calls (by number) that took the long break

actor_vars == <<driver, request_count, proxy_config, proxy_rotation, session_pool_name,
                current_proxy_url, proxy_failure_count>>
run_vars == <<pc, scrape_type, urls, max_results, proxy_configuration, credentials, i, broke, results,
              progress, job_results>>
env_vars == <<launched, live, authed, kvERROR, kvPROGRESS, progress_writes, kvSESSION,
              kvSESSION_FINAL, pushed, proxy_requests, logins, sink_rejects>>
task_hist == <<processed, last_task, extract_ok, extract_failed, recreations, skipped, at_break>>
hist_vars == <<task_hist, max_live>>
harness_vars == <<clock, sleeps, calls, last_call, long_breaks, proxy_call>>
vars == <<actor_vars, run_vars, env_vars, hist_vars, harness_vars>>

\* ----------------------------------------------------------------- helpers
Min(a, b) == IF a <= b THEN a ELSE b
Max(a, b) == IF a >= b THEN a ELSE b

RECURSIVE Pow2(_)
Pow2(n) == IF n = 0 THEN 1 ELSE 2 * Pow2(n - 1)

RECURSIVE SumSeq(_)
SumSeq(s) == IF s = <<>> THEN 0 ELSE Head(s) + SumSeq(Tail(s))

ScrapeTypes == {"person", "company", "job", "job_search"}
DirectTypes == {"person", "company", "job"}
Rotations == {"RECOMMENDED", "PER_REQUEST", "UNTIL_FAILURE"}
PoolNames == {"", "p"}

NoProxy == [kind |-> "none", sid |-> "", n |-> 0]
NoProgress == [written |-> FALSE, total |-> 0, completed |-> 0, failed |-> 0,
               status |-> "", at |-> 0]
NoFinal == [written |-> FALSE, completed |-> 0, failed |-> 0]
NoCall == [fails |-> 0, value |-> 0, attempts |-> 0, raised |-> FALSE, returned |-> 0]
NoTask == [url |-> 0, recreated |-> FALSE, relogin |-> "none", extracted |-> FALSE,
           fails |-> 0, attempts |-> 0, waited |-> 0, error |-> FALSE, push |-> "none",
           counted |-> "none", rotated |-> FALSE, flow |-> "none",
           pfc_before |-> 0, pfc_counted |-> 0, on_authed |-> FALSE, on_live |-> FALSE]
NoBreak == [happened |-> FALSE, i |-> 0, results |-> <<>>, pushed |-> <<>>,
            completed |-> 0, failed |-> 0]
NoProxyCall == [n |-> 0, rc |-> 0, url |-> NoProxy, asked |-> <<>>, sticky |-> FALSE,
                first |-> NoProxy]
NoCredentials == [cookie |-> FALSE, email |-> FALSE, password |-> FALSE]

\* F applied to the value of x, x being evaluated once.
Then(x, F(_)) == CHOOSE r \in {F(y) : y \in {x}} : TRUE

\* Python's seq[:k] for k >= 0.
Prefix(s, k) == SubSeq(s, 1, Min(Len(s), k))

\* ------------------------------------------------- setup_proxy_configuration
\* The input proxyConfiguration is [useApifyProxy : BOOLEAN, proxyUrls : number of urls];
\* an empty dict is useApifyProxy = FALSE with no urls.
SetupProxyConfiguration(cfg_in) ==
  IF ~cfg_in.useApifyProxy /\ cfg_in.proxyUrls = 0 THEN [type |-> "none", urls |-> 0]
  ELSE IF cfg_in.useApifyProxy THEN [type |-> "apify", urls |-> 0]
  ELSE [type |-> "custom", urls |-> cfg_in.proxyUrls]

\* ------------------------------------------------------------ get_proxy_url
\* proxy_config.new_url(session_id): the endpoint of a provider session.
NewUrl(sid, n) == [kind |-> "apify", sid |-> sid, n |-> n]
CustomUrl(k) == [kind |-> "custom", sid |-> "", n |-> k]

\* A session id that is not bucketed.
RecommendedUrlUnbucketed(pool, rc) ==
  IF pool # "" THEN NewUrl("index", rc) ELSE NewUrl("auto", 0)

\* Lines 95-100: the endpoint asked from the provider under RECOMMENDED.
RecommendedUrl(pool, rc) ==
  IF pool # "" THEN NewUrl("index", rc % RecommendedBuckets) ELSE NewUrl("auto", 0)

\* A provider endpoint that is fetched anew on every call.
MustFetchAlways(cur, pfc) == TRUE

\* Line 84: not self.current_proxy_url or self.proxy_failure_count >= self.max_proxy_failures
MustFetch(cur, pfc) == cur = NoProxy \/ pfc >= max_proxy_failures

\* Result: the url returned, the new current_proxy_url and proxy_failure_count, and
\* the endpoints asked from the provider or taken from the custom list by this call.
\* pick is the index random.choice draws from a custom list.
GetProxyUrl(cfg, rot, pool, rc, cur, pfc, pick) ==
  IF cfg.type = "none"
    THEN [url |-> NoProxy, cur |-> cur, pfc |-> pfc, asked |-> <<>>]
  ELSE IF cfg.type = "apify" THEN
    IF rot = "PER_REQUEST" THEN
      LET u == IF pool # "" THEN NewUrl("index", rc) ELSE NewUrl("auto", 0)
      IN [url |-> u, cur |-> cur, pfc |-> pfc, asked |-> <<u>>]
    ELSE IF rot = "UNTIL_FAILURE" THEN
      IF MustFetch(cur, pfc) THEN
        LET u == IF pool # "" THEN NewUrl("persistent", 0) ELSE NewUrl("auto", 0)
        IN [url |-> u, cur |-> u, pfc |-> 0, asked |-> <<u>>]
      ELSE [url |-> cur, cur |-> cur, pfc |-> pfc, asked |-> <<>>]
    ELSE
      LET u == RecommendedUrl(pool, rc)
      IN [url |-> u, cur |-> cur, pfc |-> pfc, asked |-> <<u>>]
  ELSE \* custom list; setup_proxy_configuration builds it only from a non-empty list
    IF rot = "PER_REQUEST" THEN
      [url |-> CustomUrl(pick), cur |-> cur, pfc |-> pfc, asked |-> <<CustomUrl(pick)>>]
    ELSE IF rot = "UNTIL_FAILURE" THEN
      IF cur = NoProxy
        THEN [url |-> CustomUrl(pick), cur |-> CustomUrl(pick), pfc |-> pfc,
              asked |-> <<CustomUrl(pick)>>]
        ELSE [url |-> cur, cur |-> cur, pfc |-> pfc, asked |-> <<>>]
    ELSE
      LET u == CustomUrl((rc % cfg.urls) + 1)
      IN [url |-> u, cur |-> cur, pfc |-> pfc, asked |-> <<u>>]

\* The indices random.choice can draw (one dummy index when there is no custom list).
Picks(cfg) == IF cfg.type = "custom" THEN 1..cfg.urls ELSE {1}

\* ------------------------------------------------------------- setup_driver
\* launch: "ok" | "no_browser" (webdriver.Chrome raises) | "after_browser"
\* (execute_cdp_cmd raises once the browser exists).
LaunchOutcomes == {"ok", "no_browser", "after_browser"}

SetupDriver(launch, cfg, rot, pool, rc, cur, pfc, pick) ==
  Then(GetProxyUrl(cfg, rot, pool, rc, cur, pfc, pick), LAMBDA p :
    [ok |-> launch = "ok",
     created |-> launch # "no_browser",
     url |-> p.url,
     cur |-> p.cur,
     pfc |-> IF launch = "no_browser" /\ p.url # NoProxy /\ rot = "UNTIL_FAILURE"
               THEN p.pfc + 1 ELSE p.pfc,
     asked |-> p.asked])

\* ----------------------------------------------------- add_rate_limit_delay
ShortDelays == {2, 3, 4}      \* samples of random.uniform(2.0, 5.0), in seconds
LongDelays == {10, 15, 19}    \* samples of random.uniform(10, 20)

\* A rate limiter that tests the count before incrementing it.
AddRateLimitDelayTestFirst(rc, short, long) ==
  [request_count |-> rc + 1,
   sleeps |-> IF rc % LongBreakEvery = 0 THEN <<short, long>> ELSE <<short>>]

\* The long break is taken when the incremented request_count is a multiple of 10.
TakesLongBreak(rc) == rc % LongBreakEvery = 0

AddRateLimitDelay(rc, short, long) ==
  [request_count |-> rc + 1,
   sleeps |-> IF TakesLongBreak(rc + 1) THEN <<short, long>> ELSE <<short>>]

\* --------------------------------------------------------- retry_on_failure
\* A backoff that does not grow.
BackoffWaitFlat(attempt) == retry_delay

BackoffWait(attempt) == retry_delay * Pow2(attempt)

IsLastAttempt(attempt) == attempt = max_retries - 1

\* raises[a + 1] says whether func raises on attempt a.  The result gives the number
\* of invocations, whether the last error was re-raised, the attempt whose value was
\* returned, and the waits slept, in order.
RECURSIVE RetryFrom(_, _, _)
RetryFrom(raises, attempt, waits) ==
  IF attempt >= max_retries
    THEN [attempts |-> attempt, raised |-> FALSE, returned |-> -1, waits |-> waits]
  ELSE IF ~raises[attempt + 1]
    THEN [attempts |-> attempt + 1, raised |-> FALSE, returned |-> attempt, waits |-> waits]
  ELSE IF IsLastAttempt(attempt)
    THEN [attempts |-> attempt + 1, raised |-> TRUE, returned |-> -1, waits |-> waits]
  ELSE RetryFrom(raises, attempt + 1, Append(waits, BackoffWait(attempt)))

RetryOnFailure(raises) == RetryFrom(raises, 0, <<>>)

\* ------------------------------------------------------- the scrape wrappers
\* scrape_person, scrape_company and scrape_job run the rate limiter and the
\* extraction inside one try block whose handler returns an error dict: they never
\* raise.  extraction_raises says whether Person/Company/Job raised.
ScrapePerson(extraction_raises) == [raised |-> FALSE, error |-> extraction_raises]
ScrapeCompany(extraction_raises) == [raised |-> FALSE, error |-> extraction_raises]
ScrapeJob(extraction_raises) == [raised |-> FALSE, error |-> extraction_raises]

Scrape(type, extraction_raises) ==
  IF type = "person" THEN ScrapePerson(extraction_raises)
  ELSE IF type = "company" THEN ScrapeCompany(extraction_raises)
  ELSE ScrapeJob(extraction_raises)

\* An extraction that fails its first k attempts: does attempt a (0-based) raise?
ExtractionRaises(k, a) == a < k

\* retry_on_failure(self.scrape_<type>, url, ...) for such an extraction.
RetryScrape(type, k) ==
  Then([a \in 1..max_retries |-> Scrape(type, ExtractionRaises(k, a - 1))], LAMBDA outcome :
  Then(RetryOnFailure([a \in 1..max_retries |-> outcome[a].raised]), LAMBDA r :
    [attempts |-> r.attempts, raised |-> r.raised, waits |-> r.waits,
     error |-> IF r.raised \/ r.returned < 0 THEN TRUE ELSE outcome[r.returned + 1].error]))

\* ------------------------------------------------------------------- run()
\* The mutable state a step of run() works on, threaded through the operators below.
Snapshot ==
  [driver |-> driver, request_count |-> request_count,
   current_proxy_url |-> current_proxy_url, proxy_failure_count |-> proxy_failure_count,
   results |-> results, progress |-> progress,
   launched |-> launched, live |-> live, authed |-> authed, pushed |-> pushed,
   proxy_requests |-> proxy_requests, logins |-> logins, max_live |-> max_live,
   raised |-> FALSE]

\* self.driver.quit()
QuitDriver(s) == [s EXCEPT !.live = s.live \ {s.driver}]

\* self.driver = await self.setup_driver(...): on failure the assignment does not
\* happen and s.raised is set; a browser created before the failure stays live.
LaunchWith(s, cfg, launch, pick) ==
  Then(SetupDriver(launch, cfg, proxy_rotation, session_pool_name,
                   s.request_count, s.current_proxy_url, s.proxy_failure_count, pick),
       LAMBDA d :
    LET id == s.launched + 1
        live2 == IF d.created THEN s.live \cup {id} ELSE s.live
    IN [s EXCEPT !.launched = IF d.created THEN id ELSE s.launched,
                 !.live = live2,
                 !.max_live = Max(s.max_live, Cardinality(live2)),
                 !.current_proxy_url = d.cur,
                 !.proxy_failure_count = d.pfc,
                 !.proxy_requests = s.proxy_requests \o d.asked,
                 !.driver = IF d.ok THEN id ELSE s.driver,
                 !.authed = IF d.ok THEN FALSE ELSE s.authed,
                 !.raised = ~d.ok])

Launch(s, launch, pick) == LaunchWith(s, proxy_config, launch, pick)

\* self.login_to_linkedin(self.driver, ...) returning ok
Login(s, ok) == [s EXCEPT !.logins = s.logins + 1, !.authed = ok]

\* A validation that takes an email or a password alone for credentials.
CredentialsMissingNoField(c) == ~c.cookie /\ ~c.email /\ ~c.password

\* "not cookie and not (email and password)"
CredentialsMissing(c) == ~c.cookie /\ ~(c.email /\ c.password)

\* min(len(urls), max_results) if urls else max_results
ProgressTotal(us, mr) == IF Len(us) > 0 THEN Min(Len(us), mr) ELSE mr

\* A task list that is not capped at max_results.
TasksUncapped == urls

\* urls[:max_results]
Tasks == Prefix(urls, max_results)

\* await Actor.set_value("PROGRESS", progress)
Persisted(prog, at) ==
  [written |-> TRUE, total |-> prog.total, completed |-> prog.completed,
   failed |-> prog.failed, status |-> prog.status, at |-> at]

\* The inputs of a run: the fields of actor_input that run() reads.  urls is the
\* number of urls (the list is <<1, ..., urls>>: run() never looks into a url).
\* A cookie makes the email and the password irrelevant, so it comes alone.
CredentialInputs ==
  { c \in [cookie : BOOLEAN, email : BOOLEAN, password : BOOLEAN] :
      c.cookie => (~c.email /\ ~c.password) }
MaxResultsInputs == (0..MaxResultsIn) \cup {DefaultMaxResults}
RunInputs ==
  [scrapeType : ScrapeTypes, urls : 0..MaxUrls, maxResults : MaxResultsInputs,
   proxyRotation : Rotations, sessionPoolName : PoolNames,
   credentials : CredentialInputs,
   proxyConfiguration : [useApifyProxy : BOOLEAN, proxyUrls : {0}]]

\* Assign the snapshot's fields to the variables they stand for.
Commit(s) ==
  /\ driver' = s.driver
  /\ request_count' = s.request_count
  /\ current_proxy_url' = s.current_proxy_url
  /\ proxy_failure_count' = s.proxy_failure_count
  /\ results' = s.results
  /\ progress' = s.progress
  /\ launched' = s.launched
  /\ live' = s.live
  /\ authed' = s.authed
  /\ pushed' = s.pushed
  /\ proxy_requests' = s.proxy_requests
  /\ logins' = s.logins
  /\ max_live' = s.max_live

\* A finally block that quits nothing.
FinallyNothing(s) == s

\* The finally block of run(): quit self.driver if it is set.
Finally(s) == IF s.driver # 0 THEN QuitDriver(s) ELSE s

\* run(), lines 441-466: read the input and validate the credentials.
Begin(inputs) ==
  /\ pc = "new"
  /\ \E in \in inputs :
       /\ scrape_type' = in.scrapeType
       /\ urls' = [j \in 1..in.urls |-> j]
       /\ max_results' = in.maxResults
       /\ proxy_rotation' = in.proxyRotation
       /\ session_pool_name' = in.sessionPoolName
       /\ credentials' = in.credentials
       /\ proxy_configuration' = in.proxyConfiguration
       /\ IF CredentialsMissing(in.credentials)
            THEN kvERROR' = kvERROR + 1 /\ pc' = "returned"
            ELSE kvERROR' = kvERROR /\ pc' = "setup"
  /\ UNCHANGED <<driver, request_count, proxy_config, current_proxy_url,
                 proxy_failure_count, i, broke, results, progress, job_results>>
  /\ UNCHANGED <<launched, live, authed, kvPROGRESS, progress_writes, kvSESSION,
                 kvSESSION_FINAL, pushed, proxy_requests, logins, sink_rejects>>
  /\ UNCHANGED <<hist_vars, harness_vars>>

RunStart == Begin(RunInputs)

\* run(), lines 468-499: proxy configuration, first launch, login, SESSION and
\* PROGRESS records.
RunOpen ==
  /\ pc = "setup"
  /\ \E launch \in LaunchOutcomes, login_ok \in BOOLEAN :
       LET cfg == SetupProxyConfiguration(proxy_configuration) IN
       \E pick \in Picks(cfg) :
       \E s0 \in {Snapshot} :
       \E s1 \in {LaunchWith(s0, cfg, launch, pick)} :
       \E s2 \in {Login(s1, login_ok)} :
         LET prog == [total |-> ProgressTotal(urls, max_results), completed |-> 0,
                      failed |-> 0, status |-> ""]
         IN /\ proxy_config' = cfg
            /\ IF s1.raised THEN
                 /\ \E f \in {Finally(s1)} : Commit(f)
                 /\ kvERROR' = kvERROR + 1
                 /\ pc' = "returned"
                 /\ UNCHANGED <<kvSESSION, kvPROGRESS, progress_writes>>
               ELSE IF ~login_ok THEN
                 /\ \E f \in {Finally(s2)} : Commit(f)
                 /\ kvERROR' = kvERROR + 1
                 /\ pc' = "returned"
                 /\ UNCHANGED <<kvSESSION, kvPROGRESS, progress_writes>>
               ELSE
                 /\ \E f \in {[s2 EXCEPT !.progress = prog]} : Commit(f)
                 /\ kvSESSION' = IF session_pool_name # "" THEN "active" ELSE kvSESSION
                 /\ kvPROGRESS' = Persisted(prog, 0)
                 /\ progress_writes' = progress_writes + 1
                 /\ pc' = "loop"
                 /\ UNCHANGED kvERROR
  /\ UNCHANGED <<proxy_rotation, session_pool_name, scrape_type, urls, max_results,
                 proxy_configuration, credentials, i, broke, job_results, kvSESSION_FINAL,
                 sink_rejects>>
  /\ UNCHANGED <<task_hist, harness_vars>>

\* request_count after n calls of a scrape wrapper, each of which runs
\* add_rate_limit_delay once.
RECURSIVE AfterScrapes(_, _)
AfterScrapes(rc, n) ==
  IF n = 0 THEN rc ELSE AfterScrapes(AddRateLimitDelay(rc, 2, 10).request_count, n - 1)

ResultOf(type, url, error) == [type |-> type, url |-> url, error |-> error]

\* A failed re-login that is ignored: the extraction goes ahead.
ReloginFailureIgnored == "run"

\* A failed re-login that leaves the loop.
ReloginFailureBreaks == "break"

\* Line 514: how the iteration ends when the re-login of a recreation fails.
ReloginFailureFlow == "continue"

\* Lines 506-514: the PER_REQUEST recreation of the session before a task.
\* flow: "run" (go on to the extraction), "except" (the launch raised) or
\* "continue" (the re-login failed: failed += 1, continue).
Recreate(s, t, launch, pick, login_ok) ==
  Then(QuitDriver(s), LAMBDA q :
  Then(Launch(q, launch, pick), LAMBDA l :
  Then(Login(l, login_ok), LAMBDA g :
    IF l.raised
      THEN [s |-> l, flow |-> "except",
            t |-> [t EXCEPT !.recreated = TRUE, !.relogin = "launch_failed"]]
    ELSE IF ~login_ok
      THEN [s |-> [g EXCEPT !.progress.failed = @ + 1], flow |-> ReloginFailureFlow,
            t |-> [t EXCEPT !.recreated = TRUE, !.relogin = "failed",
                            !.counted = "failed"]]
    ELSE [s |-> g, flow |-> "run", t |-> [t EXCEPT !.recreated = TRUE, !.relogin = "ok"]])))

\* Lines 516-519: result = retry_on_failure(scrape_<type>, url); results.append;
\* push_data; completed += 1.  flow: "next" or "except".
Extract(type, s, t, url, k, push_ok) ==
  Then(RetryScrape(type, k), LAMBDA r :
  Then([s EXCEPT !.request_count = AfterScrapes(@, r.attempts)], LAMBDA s1 :
  Then([t EXCEPT !.extracted = TRUE, !.fails = k, !.attempts = r.attempts,
                 !.waited = SumSeq(r.waits), !.error = r.error,
                 !.on_authed = s.authed, !.on_live = (s.driver \in s.live)], LAMBDA t1 :
  Then([s1 EXCEPT !.results = Append(@, ResultOf(type, url, r.error))], LAMBDA s2 :
    IF r.raised THEN [s |-> s1, flow |-> "except", t |-> t1]
    ELSE IF ~push_ok THEN [s |-> s2, flow |-> "except", t |-> [t1 EXCEPT !.push = "failed"]]
    ELSE [s |-> [s2 EXCEPT !.pushed = Append(@, ResultOf(type, url, r.error)),
                           !.progress.completed = @ + 1],
          flow |-> "next",
          t |-> [t1 EXCEPT !.push = "ok", !.counted = "completed"]]))))

\* A failed re-login after a forced rotation that lets the loop go on.
RotationReloginFailureContinues == "next"

\* Line 536: how the iteration ends when the re-login after a forced rotation fails.
RotationReloginFailureFlow == "break"

\* A failure count that forces rotations under every strategy.
ForcesRotationAlways(rot) == TRUE

\* Line 527: if self.proxy_rotation == "UNTIL_FAILURE"
ForcesRotation(rot) == rot = "UNTIL_FAILURE"

\* Lines 526-536, in the person loop only: count the failure against the proxy and
\* force a rotation at max_proxy_failures.  flow: "next", "break" or "fatal".
RotateOnFailure(s, t, launch, pick, login_ok) ==
  IF ~ForcesRotation(proxy_rotation) THEN [s |-> s, flow |-> "next", t |-> t]
  ELSE
    Then([s EXCEPT !.proxy_failure_count = @ + 1], LAMBDA s1 :
    Then([t EXCEPT !.pfc_counted = s1.proxy_failure_count], LAMBDA tc :
      IF s1.proxy_failure_count < max_proxy_failures THEN [s |-> s1, flow |-> "next", t |-> tc]
      ELSE
        Then(QuitDriver([s1 EXCEPT !.current_proxy_url = NoProxy]), LAMBDA s2 :
        Then(Launch(s2, launch, pick), LAMBDA l :
        Then(Login(l, login_ok), LAMBDA g :
        Then([tc EXCEPT !.rotated = TRUE], LAMBDA t1 :
          IF l.raised THEN [s |-> l, flow |-> "fatal", t |-> t1]
          ELSE IF ~login_ok THEN [s |-> g, flow |-> RotationReloginFailureFlow, t |-> t1]
          ELSE [s |-> g, flow |-> "next", t |-> t1]))))))

\* Lines 521-524 (559-562, 585-588): the handler of the per-task try.
HandleFailure(type, s, t, url, launch, pick, login_ok) ==
  Then([s EXCEPT !.progress.failed = @ + 1,
                 !.results = Append(@, ResultOf(type, url, TRUE)),
                 !.raised = FALSE], LAMBDA s1 :
  Then([t EXCEPT !.counted = "failed"], LAMBDA t1 :
    IF type = "person" THEN RotateOnFailure(s1, t1, launch, pick, login_ok)
    ELSE [s |-> s1, flow |-> "next", t |-> t1]))

\* One iteration of a direct-URL loop.  recreate: the PER_REQUEST branch is taken.
\* launch, pick and login_ok are the outcomes of the one session recreation an
\* iteration can make (the PER_REQUEST one or the forced rotation, never both).
TaskIteration(type, s, url, recreate, launch, pick, login_ok, k, push_ok) ==
  Then([NoTask EXCEPT !.url = url, !.pfc_before = s.proxy_failure_count,
                      !.pfc_counted = s.proxy_failure_count], LAMBDA t0 :
  Then(IF recreate THEN Recreate(s, t0, launch, pick, login_ok)
                   ELSE [s |-> s, flow |-> "run", t |-> t0], LAMBDA a :
  Then(a.s, LAMBDA as : Then(a.t, LAMBDA at :
  Then(IF a.flow = "run" THEN Extract(type, as, at, url, k, push_ok) ELSE a, LAMBDA b :
  Then(b.s, LAMBDA bs : Then(b.t, LAMBDA bt :
  Then(IF b.flow = "except"
         THEN HandleFailure(type, bs, bt, url, launch, pick, login_ok)
         ELSE b, LAMBDA c :
    [s |-> c.s, flow |-> c.flow, t |-> [c.t EXCEPT !.flow = c.flow]]))))))))

\* A recreation before every task, the first included.
NeedsRecreationAlways(idx) == proxy_rotation = "PER_REQUEST"

\* A recreation before every later task under every strategy.
NeedsRecreationAnyRotation(idx) == idx > 0

\* Line 506: if self.proxy_rotation == "PER_REQUEST" and i > 0
NeedsRecreation(idx) == proxy_rotation = "PER_REQUEST" /\ idx > 0

\* Whether the forced rotation of lines 529-536 can happen in this iteration.
MayRotate(type) ==
  /\ type = "person"
  /\ ForcesRotation(proxy_rotation)
  /\ proxy_failure_count + 1 >= max_proxy_failures

ProcessTask(type) ==
  /\ pc = "loop"
  /\ scrape_type = type
  /\ ~broke
  /\ i < Len(Tasks)
  /\ LET url == Tasks[i + 1]
         recreate == NeedsRecreation(i)
         relaunch == recreate \/ MayRotate(type)
     IN \E launch \in (IF relaunch THEN LaunchOutcomes ELSE {"ok"}),
           pick \in (IF relaunch THEN Picks(proxy_config) ELSE {1}),
           login_ok \in (IF relaunch THEN BOOLEAN ELSE {TRUE}),
           k \in 0..max_retries, push_ok \in BOOLEAN :
          \E s0 \in {Snapshot} :
          \E o \in {TaskIteration(type, s0, url, recreate, launch, pick, login_ok,
                                  k, push_ok)} :
             /\ i' = i + 1
             /\ processed' = Append(processed, url)
             /\ last_task' = o.t
             /\ extract_ok' = extract_ok + (IF o.t.extracted /\ ~o.t.error THEN 1 ELSE 0)
             /\ extract_failed' = extract_failed + (IF o.t.extracted /\ o.t.error THEN 1 ELSE 0)
             /\ broke' = (o.flow = "break")
             /\ recreations' = recreations + (IF o.t.recreated THEN 1 ELSE 0)
             /\ skipped' = IF o.flow = "continue" THEN skipped \cup {i} ELSE skipped
             /\ at_break' = IF o.flow = "break"
                              THEN [happened |-> TRUE, i |-> i + 1, results |-> o.s.results,
                                    pushed |-> o.s.pushed,
                                    completed |-> o.s.progress.completed,
                                    failed |-> o.s.progress.failed]
                              ELSE at_break
             /\ sink_rejects' = sink_rejects + (IF o.t.push = "failed" THEN 1 ELSE 0)
             /\ IF o.flow = "fatal" THEN
                  /\ \E f \in {Finally(o.s)} : Commit(f)
                  /\ kvERROR' = kvERROR + 1
                  /\ pc' = "returned"
                  /\ UNCHANGED <<kvPROGRESS, progress_writes>>
                ELSE IF o.flow = "next" THEN
                  /\ \E f \in {o.s} : Commit(f)
                  /\ kvPROGRESS' = Persisted(o.s.progress, i + 1)
                  /\ progress_writes' = progress_writes + 1
                  /\ UNCHANGED <<kvERROR, pc>>
                ELSE \* continue, break: line 539 is skipped
                  /\ \E f \in {o.s} : Commit(f)
                  /\ UNCHANGED <<kvPROGRESS, progress_writes, kvERROR, pc>>
  /\ UNCHANGED <<proxy_config, proxy_rotation, session_pool_name, scrape_type, urls,
                 max_results, proxy_configuration, credentials, job_results, kvSESSION, kvSESSION_FINAL>>
  /\ UNCHANGED harness_vars

\* run(), lines 502-539, 541-565 and 567-591.
ProcessPerson == ProcessTask("person")
ProcessCompany == ProcessTask("company")
ProcessJob == ProcessTask("job")

\* ------------------------------------------------------------ search_jobs
\* search_jobs catches every error and returns a one-element list holding an error
\* dict; otherwise it returns the n listings found.
SearchJobsResult(search_raises, n) ==
  IF search_raises THEN <<ResultOf("job_search", 0, TRUE)>>
  ELSE [j \in 1..n |-> ResultOf("job_search_result", j, FALSE)]

\* job_results[:max_results]
JobTasks == Prefix(job_results, max_results)

\* run(), line 594.
SearchJobs ==
  /\ pc = "loop"
  /\ scrape_type = "job_search"
  /\ \E search_raises \in BOOLEAN, n \in 0..MaxJobResults :
       job_results' = SearchJobsResult(search_raises, n)
  /\ pc' = "jobs"
  /\ UNCHANGED <<actor_vars, scrape_type, urls, max_results, proxy_configuration, credentials, i, broke,
                 results, progress>>
  /\ UNCHANGED <<env_vars, hist_vars, harness_vars>>

\* run(), lines 595-601: one iteration of the job_search loop.
ProcessJobResult ==
  /\ pc = "jobs"
  /\ i < Len(JobTasks)
  /\ \E push_ok \in BOOLEAN :
       \E result \in {JobTasks[i + 1]} :
       \E s1 \in {[Snapshot EXCEPT !.results = Append(@, result)]} :
       \E s2 \in {[s1 EXCEPT !.pushed = Append(@, result), !.progress.completed = @ + 1]} :
          /\ i' = i + 1
          /\ sink_rejects' = sink_rejects + (IF push_ok THEN 0 ELSE 1)
          /\ IF ~push_ok THEN
               /\ \E f \in {Finally(s1)} : Commit(f)
               /\ kvERROR' = kvERROR + 1
               /\ pc' = "returned"
               /\ UNCHANGED <<kvPROGRESS, progress_writes>>
             ELSE
               /\ Commit(s2)
               /\ IF (i + 1) % ProgressEvery = 0
                    THEN /\ kvPROGRESS' = Persisted(s2.progress, i + 1)
                         /\ progress_writes' = progress_writes + 1
                    ELSE UNCHANGED <<kvPROGRESS, progress_writes>>
               /\ UNCHANGED <<kvERROR, pc>>
  /\ UNCHANGED <<proxy_config, proxy_rotation, session_pool_name, scrape_type, urls,
                 max_results, proxy_configuration, credentials, broke, job_results, kvSESSION, kvSESSION_FINAL>>
  /\ UNCHANGED <<task_hist, harness_vars>>

\* A task loop that is never over.
LoopOverNever == FALSE

\* The task loop is over: exhausted, or left by break.
LoopOver ==
  \/ pc = "loop" /\ scrape_type \in DirectTypes /\ (broke \/ i = Len(Tasks))
  \/ pc = "jobs" /\ i = Len(JobTasks)

\* run(), lines 603-634: final PROGRESS, SESSION_<pool>_FINAL, finally block.
Finalize ==
  /\ LoopOver
  /\ \E prog \in {[progress EXCEPT !.status = "completed"]} :
     \E s1 \in {Finally([Snapshot EXCEPT !.progress = prog])} :
        /\ Commit(s1)
        /\ kvPROGRESS' = Persisted(prog, i)
        /\ progress_writes' = progress_writes + 1
        /\ kvSESSION_FINAL' =
             IF session_pool_name # ""
               THEN [written |-> TRUE, completed |-> prog.completed, failed |-> prog.failed]
               ELSE kvSESSION_FINAL
  /\ pc' = "returned"
  /\ UNCHANGED <<proxy_config, proxy_rotation, session_pool_name, scrape_type, urls,
                 max_results, proxy_configuration, credentials, i, broke, job_results, kvERROR,
                 kvSESSION, sink_rejects>>
  /\ UNCHANGED <<task_hist, harness_vars>>

\* ---------------------------------------------------------------- the run
\* A freshly constructed actor (__init__, lines 23-34) on which run() is called once.
InitActor ==
  /\ driver = 0
  /\ request_count = 0
  /\ proxy_config = [type |-> "none", urls |-> 0]
  /\ proxy_rotation = "RECOMMENDED"
  /\ session_pool_name = ""
  /\ current_proxy_url = NoProxy
  /\ proxy_failure_count = 0

InitRest ==
  /\ pc = "new"
  /\ scrape_type = "person"
  /\ urls = <<>>
  /\ max_results = DefaultMaxResults
  /\ proxy_configuration = [useApifyProxy |-> FALSE, proxyUrls |-> 0]
  /\ credentials = NoCredentials
  /\ i = 0
  /\ broke = FALSE
  /\ results = <<>>
  /\ progress = [total |-> 0, completed |-> 0, failed |-> 0, status |-> ""]
  /\ job_results = <<>>
  /\ launched = 0
  /\ live = {}
  /\ authed = FALSE
  /\ kvERROR = 0
  /\ kvPROGRESS = NoProgress
  /\ progress_writes = 0
  /\ kvSESSION = ""
  /\ kvSESSION_FINAL = NoFinal
  /\ pushed = <<>>
  /\ proxy_requests = <<>>
  /\ logins = 0
  /\ sink_rejects = 0
  /\ processed = <<>>
  /\ last_task = NoTask
  /\ extract_ok = 0
  /\ extract_failed = 0
  /\ max_live = 0
  /\ recreations = 0
  /\ skipped = {}
  /\ at_break = NoBreak
  /\ clock = 0
  /\ sleeps = <<>>
  /\ calls = 0
  /\ last_call = NoCall
  /\ long_breaks = {}
  /\ proxy_call = NoProxyCall

Init == InitActor /\ InitRest

Next ==
  \/ RunStart
  \/ RunOpen
  \/ ProcessPerson
  \/ ProcessCompany
  \/ ProcessJob
  \/ SearchJobs
  \/ ProcessJobResult
  \/ Finalize

Spec == Init /\ [][Next]_vars

\* run() is one sequential control flow whose blocking calls (sleeps, launches,
\* logins, extractions, store and sink writes) return or raise: a step that can be
\* taken is eventually taken.
SpecFair == Init /\ [][Next]_vars /\ WF_vars(Next)

\* ------------------------------------------------- run() under PER_REQUEST
\* Direct-URL runs that recreate the session before every task after the first,
\* with no proxy or with the managed provider.
CookieOnly == [cookie |-> TRUE, email |-> FALSE, password |-> FALSE]
PerRequestInputs ==
  [scrapeType : DirectTypes, urls : 0..MaxRecreateUrls, maxResults : MaxResultsInputs,
   proxyRotation : {"PER_REQUEST"}, sessionPoolName : PoolNames,
   credentials : {CookieOnly},
   proxyConfiguration : [useApifyProxy : BOOLEAN, proxyUrls : {0}]]

RunStartPerRequest == Begin(PerRequestInputs)

NextPerRequest ==
  \/ RunStartPerRequest
  \/ RunOpen
  \/ ProcessPerson
  \/ ProcessCompany
  \/ ProcessJob
  \/ Finalize

SpecPerRequest == Init /\ [][NextPerRequest]_vars

\* ----------------------------------------------- run() under UNTIL_FAILURE
\* Person runs over every kind of proxy configuration (none, managed provider,
\* custom list), long enough for max_proxy_failures failed tasks and one task more.
FailureUrls == max_proxy_failures + 1
UntilFailureInputs ==
  [scrapeType : {"person"}, urls : 0..FailureUrls, maxResults : {DefaultMaxResults},
   proxyRotation : {"UNTIL_FAILURE"}, sessionPoolName : PoolNames,
   credentials : {CookieOnly},
   proxyConfiguration : [useApifyProxy : BOOLEAN, proxyUrls : {0}] \cup
                        [useApifyProxy : {FALSE}, proxyUrls : {MaxCustomUrls}]]

RunStartUntilFailure == Begin(UntilFailureInputs)

NextUntilFailure ==
  \/ RunStartUntilFailure
  \/ RunOpen
  \/ ProcessPerson
  \/ Finalize

SpecUntilFailure == Init /\ [][NextUntilFailure]_vars

\* ------------------------------- run() under RECOMMENDED and PER_REQUEST
\* Person runs under the strategies that never force a rotation: the RECOMMENDED
\* ones long enough for max_proxy_failures failed tasks and one task more, over
\* every kind of proxy configuration; the PER_REQUEST ones with the managed provider.
NoRotationInputs ==
  [scrapeType : {"person"}, urls : 0..FailureUrls, maxResults : {DefaultMaxResults},
   proxyRotation : {"RECOMMENDED"}, sessionPoolName : PoolNames,
   credentials : {CookieOnly},
   proxyConfiguration : [useApifyProxy : BOOLEAN, proxyUrls : {0}] \cup
                        [useApifyProxy : {FALSE}, proxyUrls : {MaxCustomUrls}]]
  \cup
  [scrapeType : {"person"}, urls : 0..MaxRecreateUrls, maxResults : {DefaultMaxResults},
   proxyRotation : {"PER_REQUEST"}, sessionPoolName : {"p"},
   credentials : {CookieOnly},
   proxyConfiguration : [useApifyProxy : {TRUE}, proxyUrls : {0}]]

RunStartNoRotation == Begin(NoRotationInputs)

NextNoRotation ==
  \/ RunStartNoRotation
  \/ RunOpen
  \/ ProcessPerson
  \/ Finalize

SpecNoRotation == Init /\ [][NextNoRotation]_vars

\* ------------------------------------------------ retry_on_failure, alone
\* The values an operation can return.
ReturnValues == {1, 2}

\* One call retry_on_failure(func) on the actor, func being an operation that raises
\* on its first `fails` invocations and returns `value` afterwards; time.sleep
\* advances the clock.
RetryCall ==
  /\ calls < MaxRetryCalls
  /\ \E fails \in 0..MaxOpFails, value \in ReturnValues :
     \E r \in {RetryOnFailure([a \in 1..max_retries |-> a <= fails])} :
       /\ last_call' = [fails |-> fails, value |-> value, attempts |-> r.attempts,
                        raised |-> r.raised,
                        returned |-> IF r.returned >= 0 THEN value ELSE 0]
       /\ sleeps' = r.waits
       /\ clock' = clock + SumSeq(r.waits)
  /\ calls' = calls + 1
  /\ UNCHANGED <<actor_vars, run_vars, env_vars, hist_vars, long_breaks, proxy_call>>

NextRetry == RetryCall

SpecRetry == Init /\ [][NextRetry]_vars

\* -------------------------------------------- add_rate_limit_delay, alone
\* One call add_rate_limit_delay() on the actor.
RateLimitCall ==
  /\ calls < MaxRateCalls
  /\ \E short \in ShortDelays, long \in LongDelays :
     \E r \in {AddRateLimitDelay(request_count, short, long)} :
       /\ request_count' = r.request_count
       /\ sleeps' = r.sleeps
       /\ long_breaks' = IF Len(r.sleeps) > 1 THEN long_breaks \cup {calls + 1}
                                              ELSE long_breaks
  /\ calls' = calls + 1
  /\ UNCHANGED <<driver, proxy_config, proxy_rotation, session_pool_name,
                 current_proxy_url, proxy_failure_count>>
  /\ UNCHANGED <<run_vars, env_vars, hist_vars, clock, last_call, proxy_call>>

NextRate == RateLimitCall

SpecRate == Init /\ [][NextRate]_vars

\* ----------------------------------------------------- get_proxy_url, alone
\* An actor whose proxy fields are set directly, as test_proxy_rotation does, and on
\* which get_proxy_url is called any number of times.  Between the calls the fields
\* get_proxy_url reads change the way the rest of the class changes them:
\* add_rate_limit_delay increments request_count, and under UNTIL_FAILURE a failure
\* increments proxy_failure_count and a forced rotation resets current_proxy_url.
ProxySetups ==
  [config : {[type |-> "none", urls |-> 0], [type |-> "apify", urls |-> 0],
             [type |-> "custom", urls |-> MaxCustomUrls]},
   rotation : Rotations, pool : PoolNames]

ProxyConfigure ==
  /\ pc = "new"
  /\ \E su \in ProxySetups :
       /\ proxy_config' = su.config
       /\ proxy_rotation' = su.rotation
       /\ session_pool_name' = su.pool
  /\ pc' = "proxy"
  /\ UNCHANGED <<driver, request_count, current_proxy_url, proxy_failure_count>>
  /\ UNCHANGED <<scrape_type, urls, max_results, proxy_configuration, credentials, i, broke,
                 results, progress, job_results>>
  /\ UNCHANGED <<env_vars, hist_vars, harness_vars>>

\* url = await self.get_proxy_url()
GetProxyCall ==
  /\ pc = "proxy"
  /\ calls < MaxProxyCalls
  /\ \E pick \in Picks(proxy_config) :
     \E r \in {GetProxyUrl(proxy_config, proxy_rotation, session_pool_name, request_count,
                           current_proxy_url, proxy_failure_count, pick)} :
       /\ current_proxy_url' = r.cur
       /\ proxy_failure_count' = r.pfc
       /\ proxy_call' = [n |-> calls, rc |-> request_count, url |-> r.url, asked |-> r.asked,
                         sticky |-> (current_proxy_url # NoProxy
                                       /\ proxy_failure_count < max_proxy_failures),
                         first |-> IF r.asked # <<>> THEN r.url ELSE proxy_call.first]
  /\ calls' = calls + 1
  /\ UNCHANGED <<driver, request_count, proxy_config, proxy_rotation, session_pool_name>>
  /\ UNCHANGED <<run_vars, env_vars, hist_vars, clock, sleeps, last_call, long_breaks>>

\* self.add_rate_limit_delay() of a scrape call made between two get_proxy_url calls.
ProxyThrottle ==
  /\ pc = "proxy"
  /\ request_count < MaxProxyCalls
  /\ request_count' = AddRateLimitDelay(request_count, 2, 10).request_count
  /\ UNCHANGED <<driver, proxy_config, proxy_rotation, session_pool_name,
                 current_proxy_url, proxy_failure_count>>
  /\ UNCHANGED <<run_vars, env_vars, hist_vars, harness_vars>>

\* Lines 163-164 and 526-527: under UNTIL_FAILURE a failure is counted.
ProxyFailure ==
  /\ pc = "proxy"
  /\ proxy_rotation = "UNTIL_FAILURE"
  /\ proxy_failure_count < max_proxy_failures
  /\ proxy_failure_count' = proxy_failure_count + 1
  /\ UNCHANGED <<driver, request_count, proxy_config, proxy_rotation, session_pool_name,
                 current_proxy_url>>
  /\ UNCHANGED <<run_vars, env_vars, hist_vars, harness_vars>>

\* Lines 529-531: at max_proxy_failures the current endpoint is reset.
ProxyReset ==
  /\ pc = "proxy"
  /\ proxy_rotation = "UNTIL_FAILURE"
  /\ proxy_failure_count >= max_proxy_failures
  /\ current_proxy_url # NoProxy
  /\ current_proxy_url' = NoProxy
  /\ UNCHANGED <<driver, request_count, proxy_config, proxy_rotation, session_pool_name,
                 proxy_failure_count>>
  /\ UNCHANGED <<run_vars, env_vars, hist_vars, harness_vars>>

NextProxy ==
  \/ ProxyConfigure
  \/ GetProxyCall
  \/ ProxyThrottle
  \/ ProxyFailure
  \/ ProxyReset

SpecProxy == Init /\ [][NextProxy]_vars

\* =================================================================== claims
DirectRun == scrape_type \in DirectTypes

\* C1: at every write of the PROGRESS record, completed + failed equals the number
\* of tasks processed so far and is at most total.
C1_ProgressCountsProcessed ==
  kvPROGRESS.written =>
    /\ kvPROGRESS.completed + kvPROGRESS.failed = kvPROGRESS.at
    /\ kvPROGRESS.at <= kvPROGRESS.total

\* C2: in a direct-URL run a task whose extraction fails is counted as failed, never
\* as completed, so completed never exceeds the number of extractions that succeeded.
C2_FailedExtractionCountsFailed ==
  DirectRun =>
    /\ (last_task.extracted /\ last_task.error) => last_task.counted = "failed"
    /\ progress.completed <= extract_ok

\* C3: every task processed appends exactly one result: the length of the result
\* sequence equals completed + failed (stated for the runs in which the sink
\* accepted every record).
C3_OneResultPerTask ==
  sink_rejects = 0 => Len(results) = progress.completed + progress.failed

\* C4: every result appended to the result sequence is also pushed to the sink: at
\* return the pushed records are the returned results (stated for the runs in which
\* the sink accepted every record).
C4_EveryResultPushed ==
  (pc = "returned" /\ sink_rejects = 0) => pushed = results

\* C5: with no cookie and not both email and password, run() persists one ERROR
\* record and returns no result, without setting up a proxy, launching a browser,
\* logging in, or persisting a PROGRESS or SESSION record.
C5_MissingCredentialsStop ==
  (pc # "new" /\ ~credentials.cookie /\ ~(credentials.email /\ credentials.password)) =>
    /\ pc = "returned"
    /\ kvERROR = 1
    /\ results = <<>>
    /\ pushed = <<>>
    /\ proxy_config.type = "none"
    /\ proxy_requests = <<>>
    /\ launched = 0
    /\ driver = 0
    /\ logins = 0
    /\ ~kvPROGRESS.written
    /\ kvSESSION = ""
    /\ ~kvSESSION_FINAL.written

\* A run stopped by an input that has an email but no password.
C5_Witness ==
  /\ pc = "returned"
  /\ credentials = [cookie |-> FALSE, email |-> TRUE, password |-> FALSE]
  /\ kvERROR = 1

\* C6: when run() has returned, every browser that was launched has been quit.
C6_NoBrowserLeftLive == pc = "returned" => live = {}

C8_RetryBackoff ==
  calls > 0 =>
    /\ last_call.attempts <= 3
    /\ sleeps = [a \in 1..(last_call.attempts - 1) |-> 5 * Pow2(a - 1)]
    /\ last_call.fails < 3 =>
         /\ ~last_call.raised
         /\ last_call.returned = last_call.value
         /\ last_call.attempts = last_call.fails + 1
         /\ SumSeq(sleeps) = 5 * (Pow2(last_call.fails) - 1)
    /\ last_call.fails >= 3 =>
         /\ last_call.raised
         /\ last_call.attempts = 3
         /\ SumSeq(sleeps) = 15

\* An operation that failed twice and then succeeded, after waits of 5 and 10 seconds.
C8_Witness ==
  /\ calls > 0
  /\ last_call.fails = 2
  /\ ~last_call.raised
  /\ sleeps = <<5, 10>>

\* C9: in run(), an extraction that keeps failing is attempted 3 times with backoff
\* before the task is recorded as a failure, and an extraction that fails once and
\* would then succeed is recorded as a success.
C9_RunRetriesExtraction ==
  (DirectRun /\ last_task.extracted) =>
    /\ last_task.fails >= 3 =>
         /\ last_task.attempts = 3
         /\ last_task.waited > 0
         /\ last_task.counted = "failed"
    /\ last_task.fails = 1 => ~last_task.error

\* C10: every add_rate_limit_delay call sleeps the short delay, and the long break
\* is taken on exactly the calls numbered 10, 20, 30, ...
C10_LongBreakEveryTenth ==
  calls > 0 =>
    /\ Len(sleeps) \in {1, 2}
    /\ sleeps[1] \in 2..4
    /\ Len(sleeps) = 2 <=> calls % 10 = 0
    /\ Len(sleeps) = 2 => sleeps[2] \in 10..19
    /\ long_breaks = {c \in 1..calls : c % 10 = 0}
    /\ request_count = calls

\* Twenty calls made: the long break was taken on the 10th and the 20th only.
C10_Witness ==
  /\ calls = 20
  /\ long_breaks = {10, 20}
  /\ Len(sleeps) = 2

\* The task loop of a direct-URL run under PER_REQUEST has been entered.
PerRequestLoop ==
  /\ DirectRun
  /\ proxy_rotation = "PER_REQUEST"
  /\ kvPROGRESS.written

\* C11: under PER_REQUEST the session is recreated before every task with index > 0
\* and never before the task with index 0, so after N tasks there were exactly
\* N - 1 recreations; each recreation launches at most one browser and logs in at
\* most once (it logs in unless the launch failed).
C11_RecreateBeforeLaterTasks ==
  PerRequestLoop =>
    /\ recreations = (IF i = 0 THEN 0 ELSE i - 1)
    /\ i >= 1 => (last_task.recreated <=> i > 1)
    /\ last_task.recreated => last_task.relogin \in {"ok", "failed", "launch_failed"}
    /\ logins <= 1 + recreations
    /\ launched <= 1 + recreations

\* 3 urls with maxResults = 2: 2 results and one recreation, before index 1.
C11_Witness ==
  /\ PerRequestLoop
  /\ pc = "returned"
  /\ Len(urls) = 3
  /\ max_results = 2
  /\ Len(results) = 2
  /\ recreations = 1
  /\ logins = 2
  /\ launched = 2

\* C12: under PER_REQUEST a task whose re-login fails is counted as failed without
\* an extraction, and the run goes on: no ERROR record is written, the loop is not
\* left, and a run that returned went through every task of the capped list and
\* through the finalization.
C12_ReloginFailureSkipsTask ==
  PerRequestLoop =>
    /\ last_task.relogin = "failed" =>
         /\ last_task.counted = "failed"
         /\ ~last_task.extracted
         /\ last_task.flow = "continue"
    /\ progress.failed >= Cardinality(skipped)
    /\ kvERROR = 0
    /\ ~broke
    /\ pc = "returned" =>
         /\ i = Len(Tasks)
         /\ progress.status = "completed"

\* The re-login failed for the task of index 1, and the task of index 2 was
\* extracted afterwards.
C12_Witness ==
  /\ PerRequestLoop
  /\ pc = "returned"
  /\ skipped = {1}
  /\ i = 3
  /\ last_task.extracted
  /\ progress.failed = 1
  /\ progress.completed = 2

\* C18: under PER_REQUEST with a managed provider and a pool name, the endpoint
\* requested for the task of index j has the session id <pool>_j, so no two tasks
\* request the same session id.
C18_SessionIdPerTaskIndex ==
  (PerRequestLoop /\ proxy_config.type = "apify" /\ session_pool_name # "") =>
    /\ \A j \in 1..Len(proxy_requests) : proxy_requests[j] = NewUrl("index", j - 1)
    /\ \A j, l \in 1..Len(proxy_requests) : j # l => proxy_requests[j] # proxy_requests[l]

\* C13: under UNTIL_FAILURE, in every direct-URL run, each task recorded as failed
\* increments proxy_failure_count, and the failure that brings it to
\* max_proxy_failures forces a rotation within the same iteration.
C13_FailureCountsAndRotates ==
  (DirectRun /\ proxy_rotation = "UNTIL_FAILURE" /\ last_task.counted = "failed") =>
    /\ last_task.pfc_counted = last_task.pfc_before + 1
    /\ last_task.pfc_counted >= max_proxy_failures => last_task.rotated

\* C14: under UNTIL_FAILURE, after a forced rotation that completed,
\* proxy_failure_count is 0, whatever the proxy configuration; so it is below
\* max_proxy_failures whenever a task iteration starts.
C14_RotationResetsFailureCount ==
  (DirectRun /\ proxy_rotation = "UNTIL_FAILURE" /\ pc = "loop") =>
    /\ (last_task.rotated /\ last_task.flow = "next") => proxy_failure_count = 0
    /\ (~broke /\ i < Len(Tasks)) => proxy_failure_count < max_proxy_failures

\* C15: under UNTIL_FAILURE, once the re-login after a forced rotation failed,
\* nothing more is processed (the task count, the results, the pushed records and
\* the counters stay as they were at the break), and when run() has returned no
\* browser is live.
C15_ReloginFailureAbortsLoop ==
  (proxy_rotation = "UNTIL_FAILURE" /\ last_task.rotated /\ last_task.flow # "fatal"
     /\ ~authed) =>
    /\ broke
    /\ at_break.happened
    /\ i = at_break.i
    /\ results = at_break.results
    /\ pushed = at_break.pushed
    /\ progress.completed = at_break.completed
    /\ progress.failed = at_break.failed
    /\ pc = "returned" => (live = {} /\ kvERROR = 0)

\* The loop was left at the fifth of six tasks; the sixth was never processed.
C15_Witness ==
  /\ proxy_rotation = "UNTIL_FAILURE"
  /\ pc = "returned"
  /\ broke
  /\ Len(Tasks) = FailureUrls
  /\ i = max_proxy_failures
  /\ processed = [j \in 1..max_proxy_failures |-> j]
  /\ live = {}

\* The last get_proxy_url call was made under UNTIL_FAILURE with an endpoint held
\* and fewer than max_proxy_failures failures counted.
StickyCall ==
  /\ calls > 0
  /\ proxy_rotation = "UNTIL_FAILURE"
  /\ proxy_call.sticky

\* C16: under UNTIL_FAILURE, a get_proxy_url call made while an endpoint is held
\* and proxy_failure_count is below max_proxy_failures returns the endpoint of the
\* call that fetched it, which stays the endpoint held, and asks nothing from the
\* provider or the custom list.
C16_UntilFailureSticky ==
  StickyCall =>
    /\ proxy_call.asked = <<>>
    /\ proxy_call.url = proxy_call.first
    /\ proxy_call.url # NoProxy
    /\ current_proxy_url \in {proxy_call.url, NoProxy}

\* With four failures counted the provider's persistent endpoint is still returned.
C16_Witness ==
  /\ StickyCall
  /\ proxy_config.type = "apify"
  /\ session_pool_name = "p"
  /\ proxy_failure_count = max_proxy_failures - 1
  /\ proxy_call.n >= 2
  /\ proxy_call.url = NewUrl("persistent", 0)

\* The last get_proxy_url call was made under RECOMMENDED with the managed provider
\* and a pool name.
RecommendedCall ==
  /\ calls > 0
  /\ proxy_rotation = "RECOMMENDED"
  /\ proxy_config.type = "apify"
  /\ session_pool_name # ""

\* C17 as stated: the n-th get_proxy_url call (n from 0) requests the session id
\* <pool>_(n mod 10).
C17_SessionIdByCallNumber ==
  RecommendedCall => proxy_call.asked = <<NewUrl("index", proxy_call.n % 10)>>

\* C17, amended: a get_proxy_url call requests the session id
\* <pool>_(request_count mod 10), request_count being the number of
\* add_rate_limit_delay calls made before it; so the ids cycle with period 10 in
\* request_count, and the n-th call requests <pool>_(n mod 10) when exactly n
\* scrape calls were made before it.
C17_SessionIdByRequestCount ==
  RecommendedCall =>
    /\ proxy_call.asked = <<NewUrl("index", proxy_call.rc % 10)>>
    /\ proxy_call.url = NewUrl("index", proxy_call.rc % 10)
    /\ proxy_call.rc = proxy_call.n => proxy_call.asked = <<NewUrl("index", proxy_call.n % 10)>>

\* The call made at request_count = 10, its eleventh, is back to <pool>_0.
C17_Witness ==
  /\ RecommendedCall
  /\ proxy_call.n = 10
  /\ proxy_call.rc = 10
  /\ proxy_call.asked = <<NewUrl("index", 0)>>

\* C19: in a direct-URL run the PROGRESS record is persisted at the end of every
\* task iteration, so between iterations the persisted counters are the in-memory
\* ones; in a job_search run it is persisted after every 10th result only.
C19_ProgressPersistedEveryIteration ==
  /\ (DirectRun /\ pc = "loop" /\ i > 0) =>
       /\ kvPROGRESS.at = i
       /\ kvPROGRESS.completed = progress.completed
       /\ kvPROGRESS.failed = progress.failed
  /\ (scrape_type = "job_search" /\ pc = "jobs") =>
       /\ kvPROGRESS.at = (i \div ProgressEvery) * ProgressEvery
       /\ progress_writes = 1 + (i \div ProgressEvery)

\* C20: a run that persisted the opening SESSION_<pool> record has, when it returns,
\* persisted SESSION_<pool>_FINAL with the final completed and failed counters.
C20_FinalSessionRecord ==
  (pc = "returned" /\ kvSESSION = "active") =>
    /\ kvSESSION_FINAL.written
    /\ kvSESSION_FINAL.completed = progress.completed
    /\ kvSESSION_FINAL.failed = progress.failed

\* C21: at every point of a run at most one browser is live.
C21_AtMostOneBrowser == Cardinality(live) <= 1

\* The one login made was the one at open, and it returned false.
InitialLoginFailed ==
  /\ logins = 1
  /\ ~authed

\* C22: when the login at open returns false, run() persists one ERROR record and
\* returns an empty result sequence: no task is processed, nothing is pushed, no
\* SESSION or PROGRESS record is persisted, and the browser launched is quit.
C22_InitialLoginFailureStops ==
  InitialLoginFailed =>
    /\ pc = "returned"
    /\ kvERROR = 1
    /\ results = <<>>
    /\ pushed = <<>>
    /\ i = 0
    /\ processed = <<>>
    /\ kvSESSION = ""
    /\ ~kvSESSION_FINAL.written
    /\ ~kvPROGRESS.written
    /\ launched = 1
    /\ live = {}

\* A run with a pool name and two urls whose login at open returned false.
C22_Witness ==
  /\ InitialLoginFailed
  /\ pc = "returned"
  /\ session_pool_name = "p"
  /\ Len(urls) = 2
  /\ launched = 1

\* The launch at open failed: run() went past the validation and never logged in.
OpenLaunchFailed ==
  /\ pc \notin {"new", "setup"}
  /\ ~CredentialsMissing(credentials)
  /\ logins = 0

\* The launch of the session recreation of the last task iteration failed.
RecreationLaunchFailed ==
  \/ last_task.relogin = "launch_failed"
  \/ last_task.rotated /\ last_task.flow = "fatal"

\* C23: whenever a browser launch fails, at open or in a session recreation, the
\* run has failed: it has returned with an ERROR record persisted; and under
\* UNTIL_FAILURE with a proxy endpoint in use, a launch at open that created no
\* browser leaves proxy_failure_count at 1.
C23_LaunchFailureFailsRun ==
  /\ (OpenLaunchFailed \/ RecreationLaunchFailed) =>
       /\ pc = "returned"
       /\ kvERROR = 1
  /\ (OpenLaunchFailed /\ launched = 0 /\ proxy_rotation = "UNTIL_FAILURE"
         /\ proxy_config.type # "none") => proxy_failure_count = 1

\* C24: in a direct-URL run under RECOMMENDED or PER_REQUEST no task failure forces
\* a rotation or leaves the loop: no failure is counted against the proxy, the
\* only sessions launched after the open are those of the PER_REQUEST recreations,
\* and a run that returned processed every task of urls[:max_results].
C24_NoRotationWithoutUntilFailure ==
  (DirectRun /\ proxy_rotation \in {"RECOMMENDED", "PER_REQUEST"} /\ kvPROGRESS.written) =>
    /\ ~last_task.rotated
    /\ ~broke
    /\ ~at_break.happened
    /\ proxy_failure_count = 0
    /\ launched <= 1 + recreations
    /\ logins <= 1 + recreations
    /\ kvERROR = 0
    /\ progress.completed + progress.failed = i
    /\ pc = "returned" => i = Len(Tasks)

\* Six tasks failed in a row under RECOMMENDED, all on the session of the open.
C24_Witness ==
  /\ proxy_rotation = "RECOMMENDED"
  /\ pc = "returned"
  /\ Len(Tasks) = FailureUrls
  /\ progress.failed = FailureUrls
  /\ i = FailureUrls
  /\ launched = 1

\* The endpoint a RECOMMENDED run asks for at open (request_count is 0 there).
EndpointAtOpen ==
  IF proxy_config.type = "none" THEN <<>>
  ELSE IF proxy_config.type = "custom" THEN <<CustomUrl(1)>>
  ELSE IF session_pool_name # "" THEN <<NewUrl("index", 0)>>
  ELSE <<NewUrl("auto", 0)>>

\* C27: under RECOMMENDED run() asks for a proxy endpoint once, at open with
\* request_count 0 (session id <pool>_0 with a pool name, the first custom url with
\* a custom list), and never recreates the session: every task runs on the browser
\* launched at open.
C27_RecommendedOneEndpoint ==
  (proxy_rotation = "RECOMMENDED" /\ pc \in {"loop", "jobs", "returned"}
     /\ ~CredentialsMissing(credentials)) =>
    /\ proxy_requests = EndpointAtOpen
    /\ launched <= 1
    /\ logins <= 1
    /\ recreations = 0
    /\ ~last_task.rotated
    /\ ~last_task.recreated
    /\ driver \in {0, 1}
    /\ kvPROGRESS.written => driver = 1

\* Six tasks processed on the first url of a custom list, asked for once.
C27_Witness ==
  /\ proxy_rotation = "RECOMMENDED"
  /\ pc = "returned"
  /\ proxy_config.type = "custom"
  /\ i = FailureUrls
  /\ request_count = FailureUrls
  /\ proxy_requests = <<CustomUrl(1)>>
  /\ launched = 1

\* C25: an extraction is only attempted on a live driver whose last login returned
\* true: every scrape_person, scrape_company or scrape_job call of the task loop,
\* and the search_jobs call of a job_search run.
C25_ExtractionOnlyWhenAuthenticated ==
  /\ last_task.extracted => (last_task.on_authed /\ last_task.on_live)
  /\ (pc = "loop" /\ scrape_type = "job_search") => (authed /\ driver \in live)

\* The launch of the recreation before the task of index 1 failed, and the task of
\* index 2 was extracted on the session recreated and logged in before it.
C25_Witness ==
  /\ proxy_rotation = "PER_REQUEST"
  /\ i = 3
  /\ recreations = 2
  /\ logins = 2
  /\ last_task.recreated
  /\ last_task.relogin = "ok"
  /\ last_task.extracted
  /\ last_task.on_authed

\* C26: whenever the persisted PROGRESS record has status completed, completed +
\* failed is the number of tasks of the capped task sequence.
C26_CompletedMeansAllProcessed ==
  kvPROGRESS.status = "completed" =>
    kvPROGRESS.completed + kvPROGRESS.failed =
      (IF DirectRun THEN Len(Tasks) ELSE Len(JobTasks))

\* C28: run() terminates, whatever the task list, the rotation strategy and the
\* launch, login, extraction and sink failures: it eventually returns; and on the
\* way each task index is processed at most once, in order.
C28_RunTerminates ==
  /\ <>(pc = "returned")
  /\ [](i <= Max(Len(Tasks), Len(JobTasks)))
  /\ [](DirectRun => processed = [j \in 1..i |-> j])

\* A PER_REQUEST run of two tasks, the second failed by the launch of its
\* recreation, that went through the finalization and returned both records.
C28_Witness ==
  /\ pc = "returned"
  /\ proxy_rotation = "PER_REQUEST"
  /\ last_task.relogin = "launch_failed"
  /\ progress.status = "completed"
  /\ i = 2
  /\ Len(results) = 2

====
